---------------------------- MODULE Spec2Model ----------------------------
(***************************************************************************)
(* A model of the serial driver of stm32g0xx-hal (src/serial.rs): one      *)
(* USART/LPUART instance, its memory-mapped registers, the handles that    *)
(* give the right to use it (Serial, Tx, Rx, DmaTx, DmaRx, Transfer), the  *)
(* configuration builder, the binder Serial::$usartX, the non-blocking     *)
(* read/write/flush protocol and the DMA binding.                          *)
(*                                                                         *)
(* Three specifications share the variables:                               *)
(*   Spec      the non-blocking I/O protocol after construction, with the  *)
(*             hardware raising status flags;                              *)
(*   SpecBind  the Config builder followed by the binder;                  *)
(*   SpecOwn   the ownership protocol: split, with_dma, transfer start and *)
(*             resolution, and the interrupt-enable operations.            *)
(***************************************************************************)
EXTENDS Integers, Sequences, FiniteSets, TLC

\* ---------------------------------------------------------------- bounds

\* Longest byte sequence the caller of write() sends.
MaxLen == 2

\* Most read() calls the caller makes between two receive events.
MaxReads == 6

\* Longest DMA buffer, in bytes.
MaxBufLen == 1

\* ------------------------------------------------------ program constants

\* 19_200.bps(), the default baud rate.
DefaultBaud == 19200

\* $clk_mul of uart!(LPUART, ...).
LpuartClkMul == 256

\* $clk_mul of uart!(USART1, ...), uart!(USART2, ...), ...
UsartClkMul == 1

\* ------------------------------------------------------------ the domains

Instances == {"LPUART", "USART1"}

ClkMul(i) == IF i = "LPUART" THEN LpuartClkMul ELSE UsartClkMul

\* rcc.clocks.apb_clk.0, in Hz.
ApbClocks == {8000000, 64000000}

\* config.baudrate.0: a u32, zero included.
BaudRates == {0, 3, 9600, DefaultBaud}

WordLengths == {"DataBits7", "DataBits8", "DataBits9"}

Parities == {"ParityNone", "ParityEven", "ParityOdd"}

StopBitsSet == {"STOP1", "STOP0P5", "STOP2", "STOP1P5"}

Events == {"Rxne", "Txe", "Idle"}

\* The error kinds, in the order read() tests their flags.
ErrorFlags == <<"pe", "fe", "nf", "ore">>

ErrorOf(f) ==
    CASE f = "pe" -> "Parity"
      [] f = "fe" -> "Framing"
      [] f = "nf" -> "Noise"
      [] f = "ore" -> "Overrun"

\* Bytes the caller writes.
TxBytes == {65, 66}

\* Words the receiver may hold in RDR (9 bits wide: 322 = 0x142).
RxWords == {65, 322}

\* ---------------------------------------------------------- the variables

VARIABLES
    inst,      \* the peripheral instance ($USARTX)
    clk,       \* rcc.clocks.apb_clk
    periph,    \* TRUE while the peripheral singleton has not been bound
    config,    \* the Config being built / passed to the binder
    handles,   \* how many handles of each kind are live
    clken,     \* the instance's clock-enable bit in RCC
    brr,       \* baud-rate register
    cr1,       \* control register 1
    cr2,       \* control register 2 (stop field, other features)
    cr3,       \* control register 3
    isr,       \* status register
    rdr,       \* receive data register
    tdr,       \* transmit data register
    txch,      \* the DMA channel bound to Tx
    rxch,      \* the DMA channel bound to Rx
    txbuf,     \* the buffer the outstanding Tx Transfer owns
    rxbuf,     \* the buffer the outstanding Rx Transfer owns
    wlog,      \* the register/channel accesses of the last operation, in order
    op,        \* the last operation
    ret,       \* what it returned
    want,      \* the bytes the caller means to send
    sent,      \* how many of them write() has accepted
    txlog,     \* history: every value stored into TDR, in order
    flags0,    \* history: the receive flags at the last receive event
    rdlog,     \* history: the results of read() since then
    lastset,   \* history: per event, the last listen/unlisten since the binder
    pc,        \* the handle write_str is looping on, or "idle"
    ctx        \* the operations in flight in the Tx and the Rx context

vars == <<inst, clk, periph, config, handles, clken, brr, cr1, cr2, cr3, isr,
          rdr, tdr, txch, rxch, txbuf, rxbuf, wlog, op, ret, want, sent,
          txlog, flags0, rdlog, lastset, pc, ctx>>

regs == <<brr, cr1, cr2, cr3, isr, rdr, tdr>>

ctrl == <<brr, cr1, cr2, cr3>>

dma == <<txch, rxch, txbuf, rxbuf>>

hist == <<want, sent, txlog, flags0, rdlog, lastset, pc, ctx>>

bound == <<inst, clk, periph, config, clken>>

\* ------------------------------------------------------------- the values

\* nb::Result values.
Ok == [kind |-> "Ok", err |-> "", val |-> 0]

OkByte(b) == [kind |-> "Ok", err |-> "", val |-> b]

WouldBlock == [kind |-> "WouldBlock", err |-> "", val |-> 0]

Err(e) == [kind |-> "Err", err |-> e, val |-> 0]

NoRet == [kind |-> "None", err |-> "", val |-> 0]

\* The call did not return: it panicked.
Panic == [kind |-> "Panic", err |-> "", val |-> 0]

\* `x as u8`.
AsU8(x) == x % 256

\* impl Default for Config.
DefaultConfig ==
    [baudrate |-> DefaultBaud,
     wordlength |-> "DataBits8",
     parity |-> "ParityNone",
     stopbits |-> "STOP1"]

\* The reset value of CR1: every bit clear.
Cr1Reset ==
    [ue |-> FALSE, te |-> FALSE, re |-> FALSE, m0 |-> FALSE, m1 |-> FALSE,
     pce |-> FALSE, ps |-> FALSE, rxneie |-> FALSE, txeie |-> FALSE,
     idleie |-> FALSE]

\* The reset value of CR2 and of CR3: stop field 00, no advanced feature.
Cr2Reset == [stop |-> 0, adv |-> FALSE]

Cr3Reset == [adv |-> FALSE]

\* The reset value of ISR: TXE and TC set.
IsrReset ==
    [pe |-> FALSE, fe |-> FALSE, nf |-> FALSE, ore |-> FALSE, rxne |-> FALSE,
     txe |-> TRUE, tc |-> TRUE]

\* A DMA channel nobody has configured.
ChannelReset ==
    [dir |-> "None", paddr |-> "None", pinc |-> FALSE, maddr |-> 0,
     minc |-> FALSE, len |-> 0, started |-> FALSE]

\* No buffer: no Transfer is outstanding.
NoBuf == [addr |-> 0, len |-> 0, held |-> FALSE]

\* The kinds of handle of one peripheral instance.
HandleKinds ==
    {"Serial", "Tx", "Rx", "DmaTx", "DmaRx", "TxTransfer", "RxTransfer"}

NoHandles == [k \in HandleKinds |-> 0]

\* A value of kind k comes into being / is moved out of.
Give(H, k) == [H EXCEPT ![k] = @ + 1]

Take(H, k) == [H EXCEPT ![k] = @ - 1]

\* No operation is in flight in either context.
NoOp == [opn |-> "none", st |-> "idle", arg |-> 0, cr1 |-> Cr1Reset,
         isr |-> IsrReset]

NoCtx == [tx |-> NoOp, rx |-> NoOp,
          start |-> [cr1 |-> Cr1Reset, isr |-> IsrReset, rdr |-> 0, tdr |-> 0]]

\* No listen or unlisten has been called.
NoCalls == [e \in Events |-> "none"]

RxFlags(i) == [f \in {"pe", "fe", "nf", "ore", "rxne"} |-> i[f]]


\* ---------------------------------------------------- the binder's values

\* A u64 or u32 as two limbs: value = hi * 65536 + lo, 0 <= lo < 65536.
Limbs(h, l) == [hi |-> h, lo |-> l]

\* The value of a number whose limbs fit the model's integers.
LimbValue(x) == x.hi * 65536 + x.lo

\* The division rounded to the nearest integer instead of truncated.
DivisorRounded(mul, c, bdr) ==
    LET q == c \div bdr
        r == c % bdr
        low == mul * (q % 65536) + (mul * r + bdr \div 2) \div bdr
    IN  Limbs(mul * (q \div 65536) + low \div 65536, low % 65536)

\* ($clk_mul * clk) / bdr in u64 arithmetic, bdr > 0: with clk = q*bdr + r,
\* the quotient is mul*q + (mul*r)/bdr, computed limb by limb.
Divisor(mul, c, bdr) ==
    LET q == c \div bdr
        r == c % bdr
        low == mul * (q % 65536) + (mul * r) \div bdr
    IN  Limbs(mul * (q \div 65536) + low \div 65536, low % 65536)

\* `div as u32`: the low 32 bits.
AsU32(d) == Limbs(d.hi % 65536, d.lo)

\* The match with the codes of 2 and 1.5 stop bits exchanged.
StopCodeSwapped(sb) ==
    CASE sb = "STOP1" -> 0
      [] sb = "STOP0P5" -> 1
      [] sb = "STOP2" -> 3
      [] sb = "STOP1P5" -> 2

\* match config.stopbits { ... } of the cr2 write.
StopCode(sb) ==
    CASE sb = "STOP1" -> 0
      [] sb = "STOP0P5" -> 1
      [] sb = "STOP2" -> 2
      [] sb = "STOP1P5" -> 3

\* The CR1 write with the two word-length flags exchanged.
Cr1WriteSwapped(cfg) ==
    [Cr1Reset EXCEPT
        !.ue = TRUE,
        !.te = TRUE,
        !.re = TRUE,
        !.m0 = (cfg.wordlength = "DataBits9"),
        !.m1 = (cfg.wordlength = "DataBits7"),
        !.pce = (cfg.parity # "ParityNone"),
        !.ps = (cfg.parity = "ParityOdd")]

\* usart.cr1.write(|w| ...): the reset value with these bits.
Cr1Write(cfg) ==
    [Cr1Reset EXCEPT
        !.ue = TRUE,
        !.te = TRUE,
        !.re = TRUE,
        !.m0 = (cfg.wordlength = "DataBits7"),
        !.m1 = (cfg.wordlength = "DataBits9"),
        !.pce = (cfg.parity # "ParityNone"),
        !.ps = (cfg.parity = "ParityOdd")]

\* usart.cr2.write(|w| w.stop().bits(...)): the reset value with the stop field.
Cr2Write(cfg) == [Cr2Reset EXCEPT !.stop = StopCode(cfg.stopbits)]

Access(a, v) == [acc |-> a, val |-> v]

\* What the binder does before it divides.
BinderPrologue ==
    <<Access("tx.setup", 0), Access("rx.setup", 0),
      Access("apbenr.modify", TRUE)>>

\* The binder without the two register resets.
BinderWritesNoReset(cfg, mul, c) ==
    <<Access("brr.write", AsU32(Divisor(mul, c, cfg.baudrate))),
      Access("cr1.write", Cr1Write(cfg)),
      Access("cr2.write", Cr2Write(cfg))>>

\* The register accesses of the binder after the division, in program order.
BinderWrites(cfg, mul, c) ==
    <<Access("brr.write", AsU32(Divisor(mul, c, cfg.baudrate))),
      Access("cr2.reset", Cr2Reset),
      Access("cr3.reset", Cr3Reset),
      Access("cr1.write", Cr1Write(cfg)),
      Access("cr2.write", Cr2Write(cfg))>>

\* The effect of one access on the register file R.
ApplyAccess(R, a) ==
    CASE a.acc = "apbenr.modify" -> [R EXCEPT !.clken = a.val]
      [] a.acc = "brr.write" -> [R EXCEPT !.brr = a.val]
      [] a.acc = "cr2.reset" -> [R EXCEPT !.cr2 = a.val]
      [] a.acc = "cr3.reset" -> [R EXCEPT !.cr3 = a.val]
      [] a.acc = "cr1.write" -> [R EXCEPT !.cr1 = a.val]
      [] a.acc = "cr2.write" -> [R EXCEPT !.cr2 = a.val]
      [] OTHER -> R

RECURSIVE ApplyAll(_, _)
ApplyAll(R, as) ==
    IF as = <<>> THEN R ELSE ApplyAll(ApplyAccess(R, Head(as)), Tail(as))

\* Whether the divisor can be computed: a zero baud rate divides by zero.
DivisionPanics(cfg) == cfg.baudrate = 0

\* Serial::$usartX: the accesses made and the value returned.
Binder(cfg, mul, c) ==
    IF DivisionPanics(cfg)
    THEN [accesses |-> BinderPrologue, ret |-> Panic, made |-> {}]
    ELSE [accesses |-> BinderPrologue \o BinderWrites(cfg, mul, c), ret |-> Ok,
          made |-> {"Serial"}]

RegFile(k, b, c1, c2, c3) ==
    [clken |-> k, brr |-> b, cr1 |-> c1, cr2 |-> c2, cr3 |-> c3]

\* The register file after power-on reset.
ResetFile == RegFile(FALSE, Limbs(0, 0), Cr1Reset, Cr2Reset, Cr3Reset)

\* The register file after Serial::$usartX(usart, tx, rx, Config::default(), rcc).
DefaultBound(i, c) ==
    ApplyAll(ResetFile, Binder(DefaultConfig, ClkMul(i), c).accesses)

\* ------------------------------------------------- the I/O protocol: read

\* An ICR write that sets every clear bit: all four error flags go.
IcrWriteAll(i, f) ==
    [i EXCEPT !.pe = FALSE, !.fe = FALSE, !.nf = FALSE, !.ore = FALSE]

\* usart.icr.write(|w| w.<flag>cf().set_bit()): the hardware clears that flag.
IcrWrite(i, f) == [i EXCEPT ![f] = FALSE]

\* usart.rdr.read(): the hardware clears RXNE.
RdrRead(i) == [i EXCEPT !.rxne = FALSE]

\* usart.tdr.write(...): the hardware clears TXE and TC.
TdrWrite(i) == [i EXCEPT !.txe = FALSE, !.tc = FALSE]

\* Rx::read that also reads RDR in each error arm.
ReadOutcomeDrainOnError(i, d) ==
    IF i.pe
    THEN [isr |-> RdrRead(IcrWrite(i, "pe")), ret |-> Err("Parity"),
          acc |-> <<Access("isr.read", 0), Access("icr.write", "pecf"),
                    Access("rdr.read", d)>>]
    ELSE IF i.fe
    THEN [isr |-> RdrRead(IcrWrite(i, "fe")), ret |-> Err("Framing"),
          acc |-> <<Access("isr.read", 0), Access("icr.write", "fecf"),
                    Access("rdr.read", d)>>]
    ELSE IF i.nf
    THEN [isr |-> RdrRead(IcrWrite(i, "nf")), ret |-> Err("Noise"),
          acc |-> <<Access("isr.read", 0), Access("icr.write", "ncf"),
                    Access("rdr.read", d)>>]
    ELSE IF i.ore
    THEN [isr |-> RdrRead(IcrWrite(i, "ore")), ret |-> Err("Overrun"),
          acc |-> <<Access("isr.read", 0), Access("icr.write", "orecf"),
                    Access("rdr.read", d)>>]
    ELSE IF i.rxne
    THEN [isr |-> RdrRead(i), ret |-> OkByte(AsU8(d)),
          acc |-> <<Access("isr.read", 0), Access("rdr.read", d)>>]
    ELSE [isr |-> i, ret |-> WouldBlock, acc |-> <<Access("isr.read", 0)>>]

\* Rx::read with the framing test moved ahead of the parity test.
ReadOutcomeFramingFirst(i, d) ==
    IF i.fe
    THEN [isr |-> IcrWrite(i, "fe"), ret |-> Err("Framing"),
          acc |-> <<Access("isr.read", 0), Access("icr.write", "fecf")>>]
    ELSE IF i.pe
    THEN [isr |-> IcrWrite(i, "pe"), ret |-> Err("Parity"),
          acc |-> <<Access("isr.read", 0), Access("icr.write", "pecf")>>]
    ELSE IF i.nf
    THEN [isr |-> IcrWrite(i, "nf"), ret |-> Err("Noise"),
          acc |-> <<Access("isr.read", 0), Access("icr.write", "ncf")>>]
    ELSE IF i.ore
    THEN [isr |-> IcrWrite(i, "ore"), ret |-> Err("Overrun"),
          acc |-> <<Access("isr.read", 0), Access("icr.write", "orecf")>>]
    ELSE IF i.rxne
    THEN [isr |-> RdrRead(i), ret |-> OkByte(AsU8(d)),
          acc |-> <<Access("isr.read", 0), Access("rdr.read", d)>>]
    ELSE [isr |-> i, ret |-> WouldBlock, acc |-> <<Access("isr.read", 0)>>]

\* Rx::read on status i and receive data register d: the status it leaves,
\* the value it returns and the register accesses it makes.
ReadOutcome(i, d) ==
    IF i.pe
    THEN [isr |-> IcrWrite(i, "pe"), ret |-> Err("Parity"),
          acc |-> <<Access("isr.read", 0), Access("icr.write", "pecf")>>]
    ELSE IF i.fe
    THEN [isr |-> IcrWrite(i, "fe"), ret |-> Err("Framing"),
          acc |-> <<Access("isr.read", 0), Access("icr.write", "fecf")>>]
    ELSE IF i.nf
    THEN [isr |-> IcrWrite(i, "nf"), ret |-> Err("Noise"),
          acc |-> <<Access("isr.read", 0), Access("icr.write", "ncf")>>]
    ELSE IF i.ore
    THEN [isr |-> IcrWrite(i, "ore"), ret |-> Err("Overrun"),
          acc |-> <<Access("isr.read", 0), Access("icr.write", "orecf")>>]
    ELSE IF i.rxne
    THEN [isr |-> RdrRead(i), ret |-> OkByte(AsU8(d)),
          acc |-> <<Access("isr.read", 0), Access("rdr.read", d)>>]
    ELSE [isr |-> i, ret |-> WouldBlock, acc |-> <<Access("isr.read", 0)>>]

\* ----------------------------------------- the I/O protocol: write, flush

\* Tx::write that stores the byte before it looks at TXE.
WriteOutcomeStoreFirst(i, t, byte) ==
    IF i.txe
    THEN [isr |-> TdrWrite(i), tdr |-> byte, stored |-> <<byte>>, ret |-> Ok,
          acc |-> <<Access("tdr.write", byte), Access("isr.read", 0)>>]
    ELSE [isr |-> TdrWrite(i), tdr |-> byte, stored |-> <<byte>>,
          ret |-> WouldBlock,
          acc |-> <<Access("tdr.write", byte), Access("isr.read", 0)>>]

\* Tx::write that never looks at TXE.
WriteOutcomeNoReadyTest(i, t, byte) ==
    [isr |-> TdrWrite(i), tdr |-> byte, stored |-> <<byte>>, ret |-> Ok,
     acc |-> <<Access("tdr.write", byte)>>]

\* Tx::write(byte) on status i and transmit data register t: the status and
\* data register it leaves, the values it stored and the value it returns.
WriteOutcome(i, t, byte) ==
    IF i.txe
    THEN [isr |-> TdrWrite(i), tdr |-> byte, stored |-> <<byte>>, ret |-> Ok,
          acc |-> <<Access("isr.read", 0), Access("tdr.write", byte)>>]
    ELSE [isr |-> i, tdr |-> t, stored |-> <<>>, ret |-> WouldBlock,
          acc |-> <<Access("isr.read", 0)>>]

\* Tx::flush that tests TXE where the code tests TC.
FlushOutcomeTxe(i) == IF i.txe THEN Ok ELSE WouldBlock

\* Tx::flush on status i.
FlushOutcome(i) == IF i.tc THEN Ok ELSE WouldBlock

\* ------------------------------------------------------------ the handles

\* The handles that carry the right to transmit / to receive.
\* (A Serial owns a Tx and an Rx; a Transfer owns the DMA-bound handle.)
TxHolders(H) == H["Serial"] + H["Tx"] + H["DmaTx"] + H["TxTransfer"]

RxHolders(H) == H["Serial"] + H["Rx"] + H["DmaRx"] + H["RxTransfer"]

\* split(&self): the halves come out and the Serial stays.
SplitHandlesKeep(H) == Give(Give(H, "Tx"), "Rx")

\* Serial::split(self): the Serial is consumed, its two halves come out.
SplitHandles(H) == Give(Give(Take(H, "Serial"), "Tx"), "Rx")

\* ---------------------------------------- the I/O protocol: the operations

\* read() through handle h ("Serial" delegates to its rx field).
Read(h) ==
    /\ handles[h] > 0
    /\ Len(rdlog) < MaxReads
    /\ LET o == ReadOutcome(isr, rdr) IN
        /\ isr' = o.isr
        /\ ret' = o.ret
        /\ wlog' = o.acc
        /\ rdlog' = Append(rdlog, o.ret)
    /\ op' = h \o ".read"
    /\ UNCHANGED <<bound, handles, ctrl, rdr, tdr, dma, want, sent, txlog, flags0,
                   lastset, pc, ctx>>

SerialRead == Read("Serial")

RxRead == Read("Rx")

\* write(want[sent + 1]) through handle h: the caller retries the same byte
\* until write() accepts it.
Write(h) ==
    /\ handles[h] > 0
    /\ sent < Len(want)
    /\ LET o == WriteOutcome(isr, tdr, want[sent + 1]) IN
        /\ isr' = o.isr
        /\ tdr' = o.tdr
        /\ ret' = o.ret
        /\ wlog' = o.acc
        /\ txlog' = txlog \o o.stored
        /\ sent' = IF o.ret = Ok THEN sent + 1 ELSE sent
    /\ op' = h \o ".write"
    /\ UNCHANGED <<bound, handles, ctrl, rdr, dma, want, flags0, rdlog, lastset,
                   pc, ctx>>

SerialWrite == Write("Serial")

TxWrite == Write("Tx")

\* flush() through handle h.
Flush(h) ==
    /\ handles[h] > 0
    /\ ret' = FlushOutcome(isr)
    /\ wlog' = <<Access("isr.read", 0)>>
    /\ op' = h \o ".flush"
    /\ UNCHANGED <<bound, handles, regs, dma, hist>>

SerialFlush == Flush("Serial")

TxFlush == Flush("Tx")

\* Serial::split.
Split ==
    /\ handles["Serial"] > 0
    /\ handles' = SplitHandles(handles)
    /\ op' = "Serial.split"
    /\ ret' = NoRet
    /\ wlog' = <<>>
    /\ UNCHANGED <<bound, regs, dma, hist>>

\* -------------------------------------------------------------- hardware

\* The receiver moves a received word into RDR and raises RXNE.
HwReceive(w) ==
    /\ ~isr.rxne
    /\ rdr' = w
    /\ isr' = [isr EXCEPT !.rxne = TRUE]
    /\ flags0' = RxFlags(isr')
    /\ rdlog' = <<>>
    /\ op' = "hw.receive"
    /\ ret' = NoRet
    /\ wlog' = <<>>
    /\ UNCHANGED <<bound, handles, ctrl, tdr, dma, want, sent, txlog, lastset,
                   pc, ctx>>

\* The receiver raises an error flag (PE, FE, NF or ORE).
HwError(f) ==
    /\ ~isr[f]
    /\ isr' = [isr EXCEPT ![f] = TRUE]
    /\ flags0' = RxFlags(isr')
    /\ rdlog' = <<>>
    /\ op' = "hw.error"
    /\ ret' = NoRet
    /\ wlog' = <<>>
    /\ UNCHANGED <<bound, handles, ctrl, rdr, tdr, dma, want, sent, txlog,
                   lastset, pc, ctx>>

\* The transmitter moves TDR into its shift register and raises TXE.
HwTxEmpty ==
    /\ ~isr.txe
    /\ isr' = [isr EXCEPT !.txe = TRUE]
    /\ op' = "hw.txe"
    /\ ret' = NoRet
    /\ wlog' = <<>>
    /\ UNCHANGED <<bound, handles, ctrl, rdr, tdr, dma, hist>>

\* The last frame has left the shift register with TDR empty: TC is raised.
HwTxComplete ==
    /\ isr.txe
    /\ ~isr.tc
    /\ isr' = [isr EXCEPT !.tc = TRUE]
    /\ op' = "hw.tc"
    /\ ret' = NoRet
    /\ wlog' = <<>>
    /\ UNCHANGED <<bound, handles, ctrl, rdr, tdr, dma, hist>>

\* ------------------------------------------- the I/O protocol: Spec

\* The byte sequences of length at most n over S.
SeqsUpTo(S, n) == UNION {[1..k -> S] : k \in 0..n}

\* The state after Serial::$usartX with the default Config on a reset
\* peripheral; the caller holds the bytes it will send.
Init ==
    /\ inst \in Instances
    /\ clk = 8000000
    /\ periph = FALSE
    /\ config = DefaultConfig
    /\ handles = Give(NoHandles, "Serial")
    /\ LET R == DefaultBound(inst, clk) IN
        /\ clken = R.clken
        /\ brr = R.brr
        /\ cr1 = R.cr1
        /\ cr2 = R.cr2
        /\ cr3 = R.cr3
    /\ isr = IsrReset
    /\ rdr = 0
    /\ tdr = 0
    /\ txch = ChannelReset
    /\ rxch = ChannelReset
    /\ txbuf = NoBuf
    /\ rxbuf = NoBuf
    /\ wlog = <<>>
    /\ op = "usart"
    /\ ret = Ok
    /\ want \in SeqsUpTo(TxBytes, MaxLen)
    /\ sent = 0
    /\ txlog = <<>>
    /\ flags0 = RxFlags(IsrReset)
    /\ rdlog = <<>>
    /\ lastset = NoCalls
    /\ pc = "idle"
    /\ ctx = NoCtx

Next ==
    \/ SerialRead
    \/ RxRead
    \/ SerialWrite
    \/ TxWrite
    \/ SerialFlush
    \/ TxFlush
    \/ Split
    \/ \E w \in RxWords : HwReceive(w)
    \/ \E f \in {"pe", "fe", "nf", "ore"} : HwError(f)
    \/ HwTxEmpty
    \/ HwTxComplete

Spec == Init /\ [][Next]_vars

\* ------------------------------------------------ the I/O protocol: claims

ReadOps == {"Serial.read", "Rx.read"}

WriteOps == {"Serial.write", "Tx.write"}

FlushOps == {"Serial.flush", "Tx.flush"}

\* The result the priority order of the read protocol prescribes for status
\* i and data register d.
PriorityResult(i, d) ==
    CASE i.pe -> Err("Parity")
      [] ~i.pe /\ i.fe -> Err("Framing")
      [] ~i.pe /\ ~i.fe /\ i.nf -> Err("Noise")
      [] ~i.pe /\ ~i.fe /\ ~i.nf /\ i.ore -> Err("Overrun")
      [] ~i.pe /\ ~i.fe /\ ~i.nf /\ ~i.ore /\ i.rxne -> OkByte(d % 256)
      [] OTHER -> WouldBlock

IsrReads(log) == {k \in DOMAIN log : log[k].acc = "isr.read"}

\* C1: every read(), through Serial or Rx, reads the status register once and
\* returns the first match of parity, framing, noise, overrun, data-ready,
\* would-block, whatever lower-priority flags are set with it.
C1_ReadPriority ==
    [][op' \in ReadOps =>
        /\ ret' = PriorityResult(isr, rdr)
        /\ Cardinality(IsrReads(wlog')) = 1]_vars

\* C1's case: a read reported Parity while overrun and data-ready were set.
C1_Witness ==
    /\ op = "Rx.read"
    /\ ret = Err("Parity")
    /\ rdlog = <<Err("Parity")>>
    /\ flags0.pe /\ flags0.fe /\ flags0.ore /\ flags0.rxne

\* The error flags set in fl, in priority order.
ErrSeq(fl) == SelectSeq(ErrorFlags, LAMBDA f : fl[f])

Min(a, b) == IF a < b THEN a ELSE b

\* C2: with S the error flags set at the last receive event, the reads made
\* since report the errors of S once each in priority order and then no
\* error, and each report cleared the flag of its error and no other.
C2_OneErrorPerRead ==
    LET S == ErrSeq(flags0)
        n == Len(rdlog)
        gone == {S[k] : k \in 1..Min(n, Len(S))}
    IN  /\ \A k \in 1..n :
            IF k <= Len(S)
            THEN rdlog[k] = Err(ErrorOf(S[k]))
            ELSE rdlog[k].kind # "Err"
        /\ \A f \in {"pe", "fe", "nf", "ore"} :
            isr[f] = (flags0[f] /\ f \notin gone)

\* C2's case: parity and overrun were set together; three reads gave Parity,
\* Overrun and then no error.
C2_Witness ==
    /\ flags0.pe /\ flags0.ore /\ ~flags0.fe /\ ~flags0.nf
    /\ Len(rdlog) = 3
    /\ rdlog[1] = Err("Parity")
    /\ rdlog[2] = Err("Overrun")
    /\ rdlog[3].kind # "Err"

\* C3: write(byte) with TXE clear returns would-block and changes no
\* register; with TXE set it returns success and TDR holds the byte; it
\* never returns an error.
C3_WriteWouldBlock ==
    [][op' \in WriteOps =>
        /\ ret'.kind # "Err"
        /\ IF isr.txe
           THEN ret' = Ok /\ tdr' = want[sent + 1]
           ELSE ret' = WouldBlock /\ UNCHANGED regs]_vars

\* C3's case: after the first byte was stored, a write of a different byte
\* found TXE clear, returned would-block and left the first byte in TDR.
C3_Witness ==
    /\ op = "Tx.write"
    /\ ret = WouldBlock
    /\ ~isr.txe
    /\ Len(want) = 2 /\ want[1] # want[2]
    /\ sent = 1
    /\ tdr = want[1]

\* C4: flush() returns success exactly when TC is set, would-block
\* otherwise, and changes no register either way.
C4_FlushFrame ==
    [][op' \in FlushOps =>
        /\ (ret' = Ok) = isr.tc
        /\ (ret' = WouldBlock) = ~isr.tc
        /\ UNCHANGED regs]_vars

\* C4's case: a flush found TC clear (TXE already set again) and returned
\* would-block.
C4_Witness ==
    /\ op = "Tx.flush"
    /\ ret = WouldBlock
    /\ isr.txe /\ ~isr.tc
    /\ txlog # <<>>

\* C5: the values stored into TDR are the caller's bytes, in order, none
\* twice and none missing; each store is made with TXE set; a flush succeeds
\* only with TC set.
C5_TransmitInOrder ==
    /\ [](sent <= Len(want) /\ txlog = SubSeq(want, 1, sent))
    /\ [][txlog' # txlog =>
            isr.txe /\ txlog' = Append(txlog, want[sent + 1])]_vars
    /\ [][op' \in FlushOps /\ ret' = Ok => isr.tc]_vars

\* C5's case: the caller sent 0x41, 0x42; both are in TDR's history in that
\* order and a flush has succeeded.
C5_Witness ==
    /\ want = <<65, 66>>
    /\ txlog = <<65, 66>>
    /\ op = "Serial.flush"
    /\ ret = Ok

\* ------------------------------------------- the builder and the binder

\* Config::baudrate.
CfgBaudrate(b) ==
    /\ periph
    /\ config' = [config EXCEPT !.baudrate = b]
    /\ op' = "Config.baudrate"
    /\ ret' = NoRet
    /\ wlog' = <<>>
    /\ UNCHANGED <<inst, clk, periph, clken, handles, regs, dma, hist>>

\* Config::parity_none, parity_even, parity_odd.
CfgParity(p, name) ==
    /\ periph
    /\ config' = [config EXCEPT !.parity = p]
    /\ op' = name
    /\ ret' = NoRet
    /\ wlog' = <<>>
    /\ UNCHANGED <<inst, clk, periph, clken, handles, regs, dma, hist>>

CfgParityNone == CfgParity("ParityNone", "Config.parity_none")

CfgParityEven == CfgParity("ParityEven", "Config.parity_even")

CfgParityOdd == CfgParity("ParityOdd", "Config.parity_odd")

\* Config::wordlength_8, wordlength_9 (the builder has no setter for 7 bits).
CfgWordlength(w, name) ==
    /\ periph
    /\ config' = [config EXCEPT !.wordlength = w]
    /\ op' = name
    /\ ret' = NoRet
    /\ wlog' = <<>>
    /\ UNCHANGED <<inst, clk, periph, clken, handles, regs, dma, hist>>

CfgWordlength8 == CfgWordlength("DataBits8", "Config.wordlength_8")

CfgWordlength9 == CfgWordlength("DataBits9", "Config.wordlength_9")

\* Config::stopbits.
CfgStopbits(sb) ==
    /\ periph
    /\ config' = [config EXCEPT !.stopbits = sb]
    /\ op' = "Config.stopbits"
    /\ ret' = NoRet
    /\ wlog' = <<>>
    /\ UNCHANGED <<inst, clk, periph, clken, handles, regs, dma, hist>>

\* SerialExt::usart, that is Serial::$usartX(usart, tx, rx, config, rcc): it
\* takes the peripheral singleton, makes its register accesses in order and
\* returns; a zero baud rate panics at the division.
Usart ==
    /\ periph
    /\ periph' = FALSE
    /\ LET b == Binder(config, ClkMul(inst), clk)
           R == ApplyAll(RegFile(clken, brr, cr1, cr2, cr3), b.accesses)
       IN  /\ clken' = R.clken
           /\ brr' = R.brr
           /\ cr1' = R.cr1
           /\ cr2' = R.cr2
           /\ cr3' = R.cr3
           /\ handles' = [k \in HandleKinds |->
                            handles[k] + IF k \in b.made THEN 1 ELSE 0]
           /\ ret' = b.ret
           /\ wlog' = b.accesses
    /\ op' = "usart"
    /\ lastset' = NoCalls
    /\ UNCHANGED <<inst, clk, config, isr, rdr, tdr, dma, want, sent, txlog,
                   flags0, rdlog, pc, ctx>>

\* Control registers some earlier user of the peripheral left behind.
Cr1Dirty ==
    [ue |-> TRUE, te |-> FALSE, re |-> TRUE, m0 |-> TRUE, m1 |-> TRUE,
     pce |-> TRUE, ps |-> TRUE, rxneie |-> TRUE, txeie |-> TRUE,
     idleie |-> TRUE]

DirtyFile ==
    RegFile(TRUE, Limbs(0, 1), Cr1Dirty, [stop |-> 3, adv |-> TRUE],
            [adv |-> TRUE])

\* Before the binder: the peripheral is unbound, its registers at their reset
\* values or as an earlier user left them, and the caller holds
\* Config::default().
InitBind ==
    /\ inst \in Instances
    /\ clk \in ApbClocks
    /\ periph = TRUE
    /\ config = DefaultConfig
    /\ handles = NoHandles
    /\ \E R \in {ResetFile, DirtyFile} :
        /\ clken = R.clken
        /\ brr = R.brr
        /\ cr1 = R.cr1
        /\ cr2 = R.cr2
        /\ cr3 = R.cr3
    /\ isr = IsrReset
    /\ rdr = 0
    /\ tdr = 0
    /\ txch = ChannelReset
    /\ rxch = ChannelReset
    /\ txbuf = NoBuf
    /\ rxbuf = NoBuf
    /\ wlog = <<>>
    /\ op = "Config.default"
    /\ ret = NoRet
    /\ want = <<>>
    /\ sent = 0
    /\ txlog = <<>>
    /\ flags0 = RxFlags(IsrReset)
    /\ rdlog = <<>>
    /\ lastset = NoCalls
    /\ pc = "idle"
    /\ ctx = NoCtx

NextBind ==
    \/ \E b \in BaudRates : CfgBaudrate(b)
    \/ CfgParityNone
    \/ CfgParityEven
    \/ CfgParityOdd
    \/ CfgWordlength8
    \/ CfgWordlength9
    \/ \E sb \in StopBitsSet : CfgStopbits(sb)
    \/ Usart

SpecBind == InitBind /\ [][NextBind]_vars

\* ------------------------------------------------------ the binder: claims

\* Whether mul * c can be formed in the model's 32-bit signed integers.
ProductFits(mul, c) == c <= 2147483647 \div mul

\* C6: after a binder call that returned, the baud-rate register holds
\* floor(multiplier * clock / baud), multiplier 256 for LPUART and 1 for a
\* USART, wherever the quotient fits the register: 8 MHz and 19200 baud give
\* 416 (USART) and 106666 (LPUART).
C6_DivisorTruncates ==
    (op = "usart" /\ ret = Ok) =>
        LET mul == IF inst = "LPUART" THEN 256 ELSE 1 IN
        /\ ProductFits(mul, clk) =>
            LET d == (mul * clk) \div config.baudrate IN
            /\ brr.hi = d \div 65536
            /\ brr.lo = d % 65536
        /\ (clk = 8000000 /\ config.baudrate = 19200) =>
            LimbValue(brr) = IF inst = "LPUART" THEN 106666 ELSE 416

\* C6's case: LPUART bound at 8 MHz and 19200 baud over registers an earlier
\* user left dirty.
C6_Witness ==
    /\ op = "usart"
    /\ ret = Ok
    /\ inst = "LPUART"
    /\ clk = 8000000
    /\ config.baudrate = 19200
    /\ LimbValue(brr) = 106666
    /\ cr3 = Cr3Reset

\* Whether the u64 divisor has bits above the 32 the register write keeps.
DivisorOverflows(mul, c, bdr) ==
    bdr # 0 /\ Divisor(mul, c, bdr).hi >= 65536

\* C7: a binder call with a zero baud rate, or with a divisor wider than the
\* baud-rate register, returns InvalidConfig and produces no handle.
C7_InvalidConfig ==
    (/\ op = "usart"
     /\ \/ config.baudrate = 0
        \/ DivisorOverflows(ClkMul(inst), clk, config.baudrate)) =>
        ret = Err("InvalidConfig") /\ handles = NoHandles

\* The stop-bit settings the 2-bit STOP field stands for.
StopDecode(code) ==
    CASE code = 0 -> "STOP1"
      [] code = 1 -> "STOP0P5"
      [] code = 2 -> "STOP2"
      [] code = 3 -> "STOP1P5"

\* C8: the code the binder programs into the STOP field is 00 for 1, 01 for
\* 0.5, 10 for 2 and 11 for 1.5 stop bits; distinct settings get distinct
\* codes, every 2-bit code is used, and decoding the field gives the setting.
C8_StopBitsBijection ==
    /\ (op = "usart" /\ ret = Ok) =>
        /\ cr2.stop \in 0..3
        /\ StopDecode(cr2.stop) = config.stopbits
        /\ config.stopbits = "STOP1" => cr2.stop = 0
        /\ config.stopbits = "STOP0P5" => cr2.stop = 1
        /\ config.stopbits = "STOP2" => cr2.stop = 2
        /\ config.stopbits = "STOP1P5" => cr2.stop = 3
    /\ \A a, b \in StopBitsSet : a # b => StopCode(a) # StopCode(b)
    /\ {StopCode(sb) : sb \in StopBitsSet} = 0..3

\* C8's case: the binder programmed 2 stop bits over a STOP field that
\* held something else.
C8_Witness ==
    /\ op = "usart"
    /\ ret = Ok
    /\ config.stopbits = "STOP2"
    /\ cr2 = [stop |-> 2, adv |-> FALSE]

\* ------------------------------------------------- interrupt enable bits

\* The match with the arms of Txe and Idle exchanged.
EventBitSwapped(e) ==
    CASE e = "Rxne" -> "rxneie"
      [] e = "Txe" -> "idleie"
      [] e = "Idle" -> "txeie"

\* The CR1 bit each match arm of listen/unlisten touches.
EventBit(e) ==
    CASE e = "Rxne" -> "rxneie"
      [] e = "Txe" -> "txeie"
      [] e = "Idle" -> "idleie"

\* usart.cr1.modify(|_, w| w.<bit>().bit(v)): the other bits are written back
\* as read.
Cr1Modify(c, bit, v) == [c EXCEPT ![bit] = v]

\* listen (v = TRUE) / unlisten (v = FALSE) for event e through handle h, on
\* CR1 bit `bit`.
SetEnable(h, e, bit, v, name) ==
    /\ handles[h] > 0
    /\ cr1' = Cr1Modify(cr1, bit, v)
    /\ wlog' = <<Access("cr1.modify", bit)>>
    /\ op' = name
    /\ ret' = NoRet
    /\ lastset' = [lastset EXCEPT ![e] = IF v THEN "listen" ELSE "unlisten"]
    /\ UNCHANGED <<bound, handles, brr, cr2, cr3, isr, rdr, tdr, dma, want,
                   sent, txlog, flags0, rdlog, pc, ctx>>

SerialListen(e) == SetEnable("Serial", e, EventBit(e), TRUE, "Serial.listen")

SerialUnlisten(e) ==
    SetEnable("Serial", e, EventBit(e), FALSE, "Serial.unlisten")

\* Tx::listen on the line-idle enable.
TxListenIdle == SetEnable("Tx", "Txe", "idleie", TRUE, "Tx.listen")

TxListen == SetEnable("Tx", "Txe", "txeie", TRUE, "Tx.listen")

TxUnlisten == SetEnable("Tx", "Txe", "txeie", FALSE, "Tx.unlisten")

RxListen == SetEnable("Rx", "Rxne", "rxneie", TRUE, "Rx.listen")

RxUnlisten == SetEnable("Rx", "Rxne", "rxneie", FALSE, "Rx.unlisten")

\* ------------------------------------------------------------ DMA binding

\* Addresses of the caller's buffers (`ptr as u32`).
BufAddrs == {536870912, 536870976}

\* The buffers a caller may hand to a transfer.
Buffers == [addr : BufAddrs, len : 0..MaxBufLen, held : {TRUE}]

\* The effect of one DmaChannel call on the channel.
ChannelCall(ch, a) ==
    CASE a.acc = "set_direction" -> [ch EXCEPT !.dir = a.val]
      [] a.acc = "set_peripheral_address" ->
            [ch EXCEPT !.paddr = a.val.addr, !.pinc = a.val.inc]
      [] a.acc = "set_memory_address" ->
            [ch EXCEPT !.maddr = a.val.addr, !.minc = a.val.inc]
      [] a.acc = "set_transfer_length" -> [ch EXCEPT !.len = a.val]
      [] a.acc = "start" -> [ch EXCEPT !.started = TRUE]
      [] OTHER -> ch

RECURSIVE ChannelCalls(_, _)
ChannelCalls(ch, as) ==
    IF as = <<>> THEN ch ELSE ChannelCalls(ChannelCall(ch, Head(as)), Tail(as))

\* The channel calls of Tx::with_dma and of Rx::with_dma, in program order.
TxWithDmaCalls ==
    <<Access("set_direction", "MemoryToPeriph"),
      Access("set_peripheral_address", [addr |-> "tdr", inc |-> FALSE])>>

RxWithDmaCalls ==
    <<Access("set_direction", "PeriphToMemory"),
      Access("set_peripheral_address", [addr |-> "rdr", inc |-> FALSE])>>

\* What a fence call keeps from moving memory accesses across it:
\* atomic::compiler_fence emits no instruction and binds the compiler only;
\* atomic::fence binds the compiler and the CPU.
FenceOrders(a) ==
    CASE a.acc = "compiler_fence" -> {"compiler"}
      [] a.acc = "fence" -> {"compiler", "cpu"}
      [] OTHER -> {}

\* The calls with the direction set again at every start, always as for a
\* read.
StartCallsSetDirection(b) ==
    <<Access("set_direction", "PeriphToMemory"),
      Access("set_memory_address", [addr |-> b.addr, inc |-> TRUE]),
      Access("set_transfer_length", b.len),
      Access("compiler_fence", "SeqCst"),
      Access("start", 0)>>

\* The calls with the channel started before the fence.
StartCallsStartFirst(b) ==
    <<Access("set_memory_address", [addr |-> b.addr, inc |-> TRUE]),
      Access("set_transfer_length", b.len),
      Access("start", 0),
      Access("compiler_fence", "SeqCst")>>

\* The calls of ReadDma::read and of WriteDma::write on buffer b, in program
\* order.
StartCalls(b) ==
    <<Access("set_memory_address", [addr |-> b.addr, inc |-> TRUE]),
      Access("set_transfer_length", b.len),
      Access("compiler_fence", "SeqCst"),
      Access("start", 0)>>

\* with_dma(self, channel): the plain handle is consumed into the DMA-bound one.
BindHandles(H, from, to) == Give(Take(H, from), to)

\* read(&mut self, ..) / write(&mut self, ..): the Transfer is made and the
\* DMA-bound handle stays with the caller.
StartHandlesKeep(H, from, to) == Give(H, to)

\* read(mut self, ..) / write(mut self, ..): the DMA-bound handle is moved
\* into the Transfer.
StartHandles(H, from, to) == Give(Take(H, from), to)

\* Resolving a Transfer hands the DMA-bound handle back.
ResolveHandles(H, from, to) == Give(Take(H, from), to)

\* Tx::with_dma.
TxWithDma ==
    /\ handles["Tx"] > 0
    /\ handles' = BindHandles(handles, "Tx", "DmaTx")
    /\ txch' = ChannelCalls(txch, TxWithDmaCalls)
    /\ wlog' = TxWithDmaCalls
    /\ op' = "Tx.with_dma"
    /\ ret' = NoRet
    /\ UNCHANGED <<bound, regs, rxch, txbuf, rxbuf, hist>>

\* Rx::with_dma.
RxWithDma ==
    /\ handles["Rx"] > 0
    /\ handles' = BindHandles(handles, "Rx", "DmaRx")
    /\ rxch' = ChannelCalls(rxch, RxWithDmaCalls)
    /\ wlog' = RxWithDmaCalls
    /\ op' = "Rx.with_dma"
    /\ ret' = NoRet
    /\ UNCHANGED <<bound, regs, txch, txbuf, rxbuf, hist>>

\* WriteDma::write for DmaTx, on a buffer the caller owns.
DmaTxWrite(b) ==
    /\ handles["DmaTx"] > 0
    /\ rxbuf.held => rxbuf.addr # b.addr
    /\ handles' = StartHandles(handles, "DmaTx", "TxTransfer")
    /\ txch' = ChannelCalls(txch, StartCalls(b))
    /\ txbuf' = b
    /\ wlog' = StartCalls(b)
    /\ op' = "DmaTx.write"
    /\ ret' = NoRet
    /\ UNCHANGED <<bound, regs, rxch, rxbuf, hist>>

\* ReadDma::read for DmaRx, on a buffer the caller owns.
DmaRxRead(b) ==
    /\ handles["DmaRx"] > 0
    /\ txbuf.held => txbuf.addr # b.addr
    /\ handles' = StartHandles(handles, "DmaRx", "RxTransfer")
    /\ rxch' = ChannelCalls(rxch, StartCalls(b))
    /\ rxbuf' = b
    /\ wlog' = StartCalls(b)
    /\ op' = "DmaRx.read"
    /\ ret' = NoRet
    /\ UNCHANGED <<bound, regs, txch, txbuf, hist>>

\* The Tx Transfer is resolved: the transfer has ended, and the buffer and
\* the DmaTx go back to the caller together.
TxResolve ==
    /\ handles["TxTransfer"] > 0
    /\ handles' = ResolveHandles(handles, "TxTransfer", "DmaTx")
    /\ txch' = [txch EXCEPT !.started = FALSE]
    /\ txbuf' = NoBuf
    /\ wlog' = <<>>
    /\ op' = "TxTransfer.resolve"
    /\ ret' = NoRet
    /\ UNCHANGED <<bound, regs, rxch, rxbuf, hist>>

\* The Rx Transfer is resolved.
RxResolve ==
    /\ handles["RxTransfer"] > 0
    /\ handles' = ResolveHandles(handles, "RxTransfer", "DmaRx")
    /\ rxch' = [rxch EXCEPT !.started = FALSE]
    /\ rxbuf' = NoBuf
    /\ wlog' = <<>>
    /\ op' = "RxTransfer.resolve"
    /\ ret' = NoRet
    /\ UNCHANGED <<bound, regs, txch, txbuf, hist>>

\* ------------------------------------------------- the ownership protocol

\* Before the binder, with Config::default() and an 8 MHz clock.
InitOwn ==
    /\ InitBind
    /\ clk = 8000000

NextOwn ==
    \/ Usart
    \/ \E e \in Events : SerialListen(e)
    \/ \E e \in Events : SerialUnlisten(e)
    \/ Split
    \/ TxListen
    \/ TxUnlisten
    \/ RxListen
    \/ RxUnlisten
    \/ TxWithDma
    \/ RxWithDma
    \/ \E b \in Buffers : DmaTxWrite(b)
    \/ \E b \in Buffers : DmaRxRead(b)
    \/ TxResolve
    \/ RxResolve

SpecOwn == InitOwn /\ [][NextOwn]_vars

\* ------------------------------------------ the ownership protocol: claims

SerialOps == {"Serial.listen", "Serial.unlisten", "Serial.split"}

\* C9: at every moment at most one handle carries the right to transmit and
\* at most one the right to receive, counting Serial, Tx/Rx, DmaTx/DmaRx and
\* a Transfer; split() consumes the Serial and yields exactly one Tx and one
\* Rx, and no operation of Serial is performed without a Serial.
C9_ExclusiveHandles ==
    /\ [](/\ handles["Serial"] + handles["Tx"] + handles["DmaTx"]
                + handles["TxTransfer"] <= 1
          /\ handles["Serial"] + handles["Rx"] + handles["DmaRx"]
                + handles["RxTransfer"] <= 1)
    /\ [][op' = "Serial.split" =>
            /\ handles["Serial"] = 1
            /\ handles'["Serial"] = 0
            /\ handles'["Tx"] = 1
            /\ handles'["Rx"] = 1]_vars
    /\ [][op' \in SerialOps => handles["Serial"] > 0]_vars

\* C9's case: after construct, split, with_dma on both halves, a transfer
\* started and resolved on one and started on the other, one DmaTx and one
\* Rx Transfer are all that is left.
C9_Witness ==
    /\ periph = FALSE
    /\ handles = [NoHandles EXCEPT !["DmaTx"] = 1, !["RxTransfer"] = 1]
    /\ txch.len > 0
    /\ ~txch.started
    /\ rxch.started

\* C10: a DMA-bound handle has at most one Transfer outstanding: a start
\* moves the handle into the Transfer, so none can start while one exists,
\* and the handle comes back, with the buffer released, only by resolving
\* the Transfer.
C10_SingleFlight ==
    /\ [](/\ handles["DmaTx"] + handles["TxTransfer"] <= 1
          /\ handles["DmaRx"] + handles["RxTransfer"] <= 1
          /\ txbuf.held = (handles["TxTransfer"] = 1)
          /\ rxbuf.held = (handles["RxTransfer"] = 1))
    /\ [][op' = "DmaTx.write" =>
            /\ handles["TxTransfer"] = 0
            /\ handles'["DmaTx"] = 0
            /\ handles'["TxTransfer"] = 1]_vars
    /\ [][op' = "DmaRx.read" =>
            /\ handles["RxTransfer"] = 0
            /\ handles'["DmaRx"] = 0
            /\ handles'["RxTransfer"] = 1]_vars
    /\ [][handles["TxTransfer"] > 0 /\ handles'["DmaTx"] > 0 =>
            op' = "TxTransfer.resolve" /\ ~txbuf'.held]_vars
    /\ [][handles["RxTransfer"] > 0 /\ handles'["DmaRx"] > 0 =>
            op' = "RxTransfer.resolve" /\ ~rxbuf'.held]_vars

\* C10's case: a Tx transfer has just been started while an Rx transfer is
\* outstanding on another buffer; the DmaTx is inside its Transfer.
C10_Witness ==
    /\ op = "DmaTx.write"
    /\ handles["TxTransfer"] = 1
    /\ handles["DmaTx"] = 0
    /\ txbuf.held
    /\ txbuf.addr = 536870976
    /\ rxbuf.held
    /\ rxbuf.addr = 536870912

\* --------------------------------------------------- DMA transfer: claims

StartOps == {"DmaTx.write", "DmaRx.read"}

\* The positions in log of the calls named n.
Calls(log, n) == {k \in DOMAIN log : log[k].acc = n}

\* The positions in log of the fences that bind every agent of `agents`.
Fences(log, agents) == {k \in DOMAIN log : agents \subseteq FenceOrders(log[k])}

\* In log, buffer b's address and length are programmed once each, then a
\* fence binding `agents` is issued, then the channel is started, once.
StartsInOrder(log, b, agents) ==
    /\ \E a \in Calls(log, "set_memory_address") :
       \E l \in Calls(log, "set_transfer_length") :
       \E f \in Fences(log, agents) :
       \E g \in Calls(log, "start") :
            /\ log[a].val.addr = b.addr
            /\ log[l].val = b.len
            /\ a < f /\ l < f /\ f < g
    /\ \A g \in Calls(log, "start") :
        /\ \A a \in Calls(log, "set_memory_address") : a < g
        /\ \A l \in Calls(log, "set_transfer_length") : l < g
        /\ \E f \in Fences(log, agents) : f < g

BindingCalls(log) ==
    Calls(log, "set_direction") \cup Calls(log, "set_peripheral_address")

\* log sets direction d once and peripheral address p (no increment) once,
\* and nothing else of the binding.
BindsOnce(log, d, p) ==
    /\ Cardinality(BindingCalls(log)) = 2
    /\ \E k \in Calls(log, "set_direction") : log[k].val = d
    /\ \E k \in Calls(log, "set_peripheral_address") :
            log[k].val.addr = p /\ ~log[k].val.inc

\* C12: with_dma sets the channel's direction (memory to peripheral for Tx,
\* peripheral to memory for Rx) and its peripheral address (TDR for Tx, RDR
\* for Rx) once each; no transfer start sets either, and however many
\* transfers were started and resolved, a DMA-bound handle's channel has the
\* direction and peripheral address with_dma gave it.
C12_DmaBindingFixed ==
    /\ [][op' = "Tx.with_dma" => BindsOnce(wlog', "MemoryToPeriph", "tdr")]_vars
    /\ [][op' = "Rx.with_dma" => BindsOnce(wlog', "PeriphToMemory", "rdr")]_vars
    /\ [][op' \in StartOps => BindingCalls(wlog') = {}]_vars
    /\ [](handles["DmaTx"] + handles["TxTransfer"] > 0 =>
            /\ txch.dir = "MemoryToPeriph"
            /\ txch.paddr = "tdr"
            /\ ~txch.pinc)
    /\ [](handles["DmaRx"] + handles["RxTransfer"] > 0 =>
            /\ rxch.dir = "PeriphToMemory"
            /\ rxch.paddr = "rdr"
            /\ ~rxch.pinc)

\* C12's case: a Tx transfer was started and resolved, an Rx transfer is
\* outstanding, and both channels still have with_dma's binding.
C12_Witness ==
    /\ op = "TxTransfer.resolve"
    /\ handles["DmaTx"] = 1
    /\ handles["RxTransfer"] = 1
    /\ txch.len = 1
    /\ txch.dir = "MemoryToPeriph"
    /\ txch.paddr = "tdr"
    /\ rxch.dir = "PeriphToMemory"
    /\ rxch.paddr = "rdr"

\* ------------------------------------------------ interrupt enable: claims

\* The interrupt-enable bit of each event.
EnableBitOf(e) ==
    CASE e = "Rxne" -> "rxneie"
      [] e = "Txe" -> "txeie"
      [] e = "Idle" -> "idleie"

\* Serial::listen(e) (on = TRUE) or Serial::unlisten(e) has just made this
\* step: the bit of e has the value `on`, every other bit of CR1 and every
\* other register is as before.
TogglesOnly(on) ==
    \E e \in Events :
        /\ lastset' = [lastset EXCEPT ![e] = IF on THEN "listen" ELSE "unlisten"]
        /\ cr1' = [cr1 EXCEPT ![EnableBitOf(e)] = on]
        /\ UNCHANGED <<brr, cr2, cr3, isr, rdr, tdr>>

\* C13: on Serial, listen(event) sets and unlisten(event) clears the
\* interrupt-enable bit of that event and nothing else; whatever the
\* sequence of calls, each enable bit equals the last call for its event.
C13_ListenTogglesOneBit ==
    /\ [][op' = "Serial.listen" => TogglesOnly(TRUE)]_vars
    /\ [][op' = "Serial.unlisten" => TogglesOnly(FALSE)]_vars
    /\ [](handles["Serial"] > 0 =>
            \A e \in Events :
                /\ lastset[e] = "listen" => cr1[EnableBitOf(e)]
                /\ lastset[e] = "unlisten" => ~cr1[EnableBitOf(e)])
    /\ [](handles["Serial"] > 0 => cr1.ue /\ cr1.te /\ cr1.re)

\* C13's case: after listen(Txe), listen(Idle), unlisten(Txe) on Serial, the
\* idle enable is set and the other two are clear.
C13_Witness ==
    /\ op = "Serial.unlisten"
    /\ handles["Serial"] = 1
    /\ lastset = [Rxne |-> "none", Txe |-> "unlisten", Idle |-> "listen"]
    /\ cr1.idleie /\ ~cr1.txeie /\ ~cr1.rxneie
    /\ cr1.ue /\ cr1.te /\ cr1.re

\* ------------------------------------------- write_str: SpecStr

StrHandles == {"Serial", "Tx"}

\* write_str(s) is entered through handle h: the iterator over s.as_bytes()
\* stands before the first byte.
StrCall(h, s) ==
    /\ pc = "idle"
    /\ handles[h] > 0
    /\ want' = s
    /\ sent' = 0
    /\ txlog' = <<>>
    /\ pc' = h
    /\ op' = h \o ".write_str.call"
    /\ ret' = NoRet
    /\ wlog' = <<>>
    /\ UNCHANGED <<bound, handles, regs, dma, flags0, rdlog, lastset, ctx>>

\* A loop that calls write once for each byte and moves on whatever it
\* returned.
StrWriteNoRetry(h) ==
    /\ pc = h
    /\ handles[h] > 0
    /\ sent < Len(want)
    /\ LET o == WriteOutcome(isr, tdr, want[sent + 1]) IN
        /\ isr' = o.isr
        /\ tdr' = o.tdr
        /\ ret' = o.ret
        /\ wlog' = o.acc
        /\ txlog' = txlog \o o.stored
    /\ sent' = sent + 1
    /\ op' = h \o ".write"
    /\ UNCHANGED <<bound, handles, ctrl, rdr, dma, want, flags0, rdlog, lastset,
                   pc, ctx>>

\* One turn of block!(self.write(*c)) for the byte the iterator stands on:
\* WouldBlock keeps the loop on this byte, Ok moves the iterator on.
StrWrite(h) ==
    /\ pc = h
    /\ Write(h)

\* The iterator is exhausted: last() returns, its result is dropped and
\* write_str returns Ok(()).
StrReturn(h) ==
    /\ pc = h
    /\ sent = Len(want)
    /\ pc' = "idle"
    /\ op' = h \o ".write_str"
    /\ ret' = Ok
    /\ wlog' = <<>>
    /\ UNCHANGED <<bound, handles, regs, dma, want, sent, txlog, flags0, rdlog,
                   lastset, ctx>>

\* split() takes Serial by value: not while write_str borrows it.
StrSplit ==
    /\ pc = "idle"
    /\ Split

NextStr ==
    \/ \E h \in StrHandles : \E s \in SeqsUpTo(TxBytes, MaxLen) : StrCall(h, s)
    \/ \E h \in StrHandles : StrWrite(h)
    \/ \E h \in StrHandles : StrReturn(h)
    \/ StrSplit
    \/ HwTxEmpty
    \/ HwTxComplete

\* The transmitter raises TXE whenever it is clear, and the busy-poll loop
\* keeps running.
FairStr ==
    /\ WF_vars(HwTxEmpty)
    /\ \A h \in StrHandles : WF_vars(StrWrite(h))
    /\ \A h \in StrHandles : WF_vars(StrReturn(h))

\* After the binder, before the first write_str.
InitStr ==
    /\ Init
    /\ want = <<>>

SpecStr == InitStr /\ [][NextStr]_vars /\ FairStr

\* C14: write_str retries write for each byte until it is accepted: with a
\* transmitter that raises TXE whenever it is clear, every call returns; it
\* returns Ok having stored exactly the bytes of the string in order (none
\* for the empty string); and while TXE stays clear with a byte left, it
\* neither stores nor returns.
C14_WriteStrReturns ==
    /\ (pc # "idle") ~> (pc = "idle")
    /\ [][pc # "idle" /\ pc' = "idle" => ret' = Ok /\ txlog' = want]_vars
    /\ [][pc # "idle" /\ sent < Len(want) /\ ~isr.txe /\ ~isr'.txe =>
            pc' = pc /\ txlog' = txlog /\ sent' = sent]_vars

\* C14's case: write_str on a two-byte string has returned Ok through Tx
\* after both bytes were stored, the second once TXE was raised again.
C14_Witness ==
    /\ op = "Tx.write_str"
    /\ ret = Ok
    /\ pc = "idle"
    /\ want = <<65, 66>>
    /\ txlog = want
    /\ ~isr.tc

\* ------------------------------------- Tx and Rx in two contexts: SpecRace

TxOps == {"write", "flush", "listen", "unlisten"}

RxOps == {"read", "listen", "unlisten"}

\* The registers an operation of Tx or Rx can touch.
Live == [cr1 |-> cr1, isr |-> isr, rdr |-> rdr, tdr |-> tdr]

\* The status register after the hardware has cleared, in the live value,
\* the flags an access cleared between `before` and `after`.
ApplyClears(live, before, after) ==
    [f \in DOMAIN live |-> live[f] /\ ~(before[f] /\ ~after[f])]

\* Tx::listen / Tx::unlisten / Rx::listen / Rx::unlisten set or clear a bit.
EnableValue(opn) == opn = "listen"

\* One context starts a Tx operation and the other an Rx operation; neither
\* has touched a register yet.
RaceBegin(t, b, r) ==
    /\ handles["Tx"] > 0
    /\ handles["Rx"] > 0
    /\ ctx.tx.st = "idle"
    /\ ctx.rx.st = "idle"
    /\ ctx' = [tx |-> [NoOp EXCEPT !.opn = t, !.st = "begun", !.arg = b],
               rx |-> [NoOp EXCEPT !.opn = r, !.st = "begun"],
               start |-> Live]
    /\ op' = "begin"
    /\ ret' = NoRet
    /\ wlog' = <<>>
    /\ UNCHANGED <<bound, handles, regs, dma, want, sent, txlog, flags0, rdlog,
                   lastset, pc>>

\* The first register access of the operation c in flight through handle h:
\* modify reads CR1; write, flush and read read ISR. flush is then done.
FirstAccess(h, side) ==
    LET c == ctx[side] IN
    /\ handles[h] > 0
    /\ c.st = "begun"
    /\ ctx' = [ctx EXCEPT ![side] =
                 [c EXCEPT !.st = IF c.opn = "flush" THEN "done" ELSE "read",
                           !.cr1 = cr1, !.isr = isr]]
    /\ wlog' = <<Access(IF c.opn \in {"listen", "unlisten"}
                        THEN "cr1.read" ELSE "isr.read", 0)>>
    /\ op' = h \o "." \o c.opn
    /\ ret' = IF c.opn = "flush" THEN FlushOutcome(isr) ELSE NoRet
    /\ UNCHANGED <<bound, handles, regs, dma, want, sent, txlog, flags0, rdlog,
                   lastset, pc>>

\* The write half of cr1.modify: the value read earlier, with the bit of
\* event e set or cleared, replaces the whole register.
ModifyWrite(h, side, e, bit) ==
    LET c == ctx[side] IN
    /\ handles[h] > 0
    /\ c.st = "read"
    /\ c.opn \in {"listen", "unlisten"}
    /\ cr1' = Cr1Modify(c.cr1, bit, EnableValue(c.opn))
    /\ ctx' = [ctx EXCEPT ![side].st = "done"]
    /\ lastset' = [lastset EXCEPT
                     ![e] = IF EnableValue(c.opn) THEN "listen" ELSE "unlisten"]
    /\ wlog' = <<Access("cr1.write", bit)>>
    /\ op' = h \o "." \o c.opn
    /\ ret' = NoRet
    /\ UNCHANGED <<bound, handles, brr, cr2, cr3, isr, rdr, tdr, dma, want,
                   sent, txlog, flags0, rdlog, pc>>

\* The rest of Tx::write after its ISR read: the store into TDR if the value
\* read had TXE set.
TxWriteStore ==
    LET c == ctx.tx
        o == WriteOutcome(c.isr, tdr, c.arg) IN
    /\ handles["Tx"] > 0
    /\ c.st = "read"
    /\ c.opn = "write"
    /\ isr' = ApplyClears(isr, c.isr, o.isr)
    /\ tdr' = o.tdr
    /\ ret' = o.ret
    /\ wlog' = Tail(o.acc)
    /\ ctx' = [ctx EXCEPT !.tx.st = "done"]
    /\ op' = "Tx.write"
    /\ UNCHANGED <<bound, handles, ctrl, rdr, dma, want, sent, txlog, flags0,
                   rdlog, lastset, pc>>

\* The rest of Rx::read after its ISR read: the ICR write or the RDR read
\* chosen from the value read.
RxReadAccess ==
    LET c == ctx.rx
        o == ReadOutcome(c.isr, rdr) IN
    /\ handles["Rx"] > 0
    /\ c.st = "read"
    /\ c.opn = "read"
    /\ isr' = ApplyClears(isr, c.isr, o.isr)
    /\ ret' = o.ret
    /\ wlog' = Tail(o.acc)
    /\ ctx' = [ctx EXCEPT !.rx.st = "done"]
    /\ op' = "Rx.read"
    /\ UNCHANGED <<bound, handles, ctrl, rdr, tdr, dma, want, sent, txlog,
                   flags0, rdlog, lastset, pc>>

\* Both operations have returned.
RaceEnd ==
    /\ ctx.tx.st = "done"
    /\ ctx.rx.st = "done"
    /\ ctx' = NoCtx
    /\ op' = "end"
    /\ ret' = NoRet
    /\ wlog' = <<>>
    /\ UNCHANGED <<bound, handles, regs, dma, want, sent, txlog, flags0, rdlog,
                   lastset, pc>>

\* No operation is in flight.
Quiet == ctx = NoCtx

\* The error flags the receiver raises between two races.
RaceErrors == {"pe", "ore"}

NextRace ==
    \/ Quiet /\ Split
    \/ \E w \in RxWords : Quiet /\ HwReceive(w)
    \/ \E f \in RaceErrors : Quiet /\ HwError(f)
    \/ Quiet /\ HwTxEmpty
    \/ Quiet /\ HwTxComplete
    \/ \E t \in TxOps, b \in TxBytes, r \in RxOps : RaceBegin(t, b, r)
    \/ FirstAccess("Tx", "tx")
    \/ FirstAccess("Rx", "rx")
    \/ ModifyWrite("Tx", "tx", "Txe", "txeie")
    \/ ModifyWrite("Rx", "rx", "Rxne", "rxneie")
    \/ TxWriteStore
    \/ RxReadAccess
    \/ RaceEnd

\* After the binder on USART1, before split.
InitRace ==
    /\ Init
    /\ inst = "USART1"
    /\ want = <<>>

SpecRace == InitRace /\ [][NextRace]_vars

\* The registers after the Tx operation t(b) alone, from registers R.
TxEffect(t, b, R) ==
    CASE t \in {"listen", "unlisten"} ->
            [R EXCEPT !.cr1 = Cr1Modify(R.cr1, "txeie", EnableValue(t))]
      [] t = "write" ->
            LET o == WriteOutcome(R.isr, R.tdr, b) IN
            [R EXCEPT !.isr = o.isr, !.tdr = o.tdr]
      [] t = "flush" -> R

\* The registers after the Rx operation r alone, from registers R.
RxEffect(r, R) ==
    CASE r \in {"listen", "unlisten"} ->
            [R EXCEPT !.cr1 = Cr1Modify(R.cr1, "rxneie", EnableValue(r))]
      [] r = "read" -> [R EXCEPT !.isr = ReadOutcome(R.isr, R.rdr).isr]

\* Both operations of the pair have returned.
BothDone == ctx.tx.st = "done" /\ ctx.rx.st = "done"

\* C15: one Tx operation and one Rx operation, interleaved at the level of
\* their register accesses, leave the registers as one of the two sequential
\* orders would.
C15_Serializable ==
    BothDone =>
        LET t == ctx.tx.opn
            b == ctx.tx.arg
            r == ctx.rx.opn
        IN Live \in {RxEffect(r, TxEffect(t, b, ctx.start)),
                     TxEffect(t, b, RxEffect(r, ctx.start))}

\* C15, narrowed: every pair other than two interrupt-enable updates leaves
\* the registers as one of the two sequential orders would.
C15_SerializableUnlessTwoModifies ==
    BothDone /\ ~(ctx.tx.opn \in {"listen", "unlisten"}
                  /\ ctx.rx.opn \in {"listen", "unlisten"}) =>
        LET t == ctx.tx.opn
            b == ctx.tx.arg
            r == ctx.rx.opn
        IN Live \in {RxEffect(r, TxEffect(t, b, ctx.start)),
                     TxEffect(t, b, RxEffect(r, ctx.start))}

\* ------------------------------------------- the binder's write order

\* The positions in log of the writes that set the peripheral-enable bit.
EnableWrites(log) ==
    {i \in DOMAIN log : log[i].acc = "cr1.write" /\ log[i].val.ue}

\* The positions in log of the writes of the register that holds the
\* stop-bits field.
StopWrites(log) == {j \in DOMAIN log : log[j].acc = "cr2.write"}

\* C16: among the register writes of a successful construction, no write of
\* the stop-bits register comes after the write that sets the
\* peripheral-enable bit.
C16_FrameBeforeEnable ==
    (op = "usart" /\ ret = Ok) =>
        \A i \in EnableWrites(wlog) : \A j \in StopWrites(wlog) : j < i

\* ------------------------------------------- the binder's frame bits

\* Every Config value, the 7-bit word length included.
Configs ==
    [baudrate : BaudRates, wordlength : WordLengths, parity : Parities,
     stopbits : StopBitsSet]

\* The frame bits c of CR1 are those of Config cfg.
FrameBits(c, cfg) ==
    /\ ~(c.m0 /\ c.m1)
    /\ cfg.wordlength = "DataBits8" => ~c.m0 /\ ~c.m1
    /\ cfg.wordlength = "DataBits7" => c.m0 /\ ~c.m1
    /\ cfg.wordlength = "DataBits9" => ~c.m0 /\ c.m1
    /\ c.pce <=> cfg.parity \in {"ParityEven", "ParityOdd"}
    /\ c.ps <=> cfg.parity = "ParityOdd"

\* C17: after a successful construction the word-length flags, parity-enable
\* and parity-select of CR1 are those of the Config (m0 alone for 7 bits, m1
\* alone for 9, neither for 8; pce iff Even or Odd; ps iff Odd); the value
\* the binder writes has them for every Config; the default Config leaves all
\* four clear and the stop field 00.
C17_FrameBits ==
    /\ (op = "usart" /\ ret = Ok) =>
        /\ FrameBits(cr1, config)
        /\ config = DefaultConfig =>
            ~cr1.m0 /\ ~cr1.m1 /\ ~cr1.pce /\ ~cr1.ps /\ cr2.stop = 0
    /\ \A cfg \in Configs : FrameBits(Cr1Write(cfg), cfg)
    /\ DefaultConfig = [baudrate |-> DefaultBaud, wordlength |-> "DataBits8",
                        parity |-> "ParityNone", stopbits |-> "STOP1"]

\* C17's case: the binder has programmed 9 data bits with odd parity.
C17_Witness ==
    /\ op = "usart"
    /\ ret = Ok
    /\ config.wordlength = "DataBits9"
    /\ config.parity = "ParityOdd"
    /\ cr1.m1 /\ ~cr1.m0 /\ cr1.pce /\ cr1.ps

\* ------------------------------------------- the state after the binder

\* A handle of the bound peripheral exists.
Constructed == \E k \in HandleKinds : handles[k] > 0

\* C18: right after a successful construction, whatever the control
\* registers held before, ue, te and re are set, the three interrupt
\* enables are clear and CR2 (apart from the stop field) and CR3 hold their
\* reset values; afterwards an interrupt enable is set only if listen was
\* called for its event since the construction.
C18_CleanAfterBinder ==
    /\ (op = "usart" /\ ret = Ok) =>
        /\ cr1.ue /\ cr1.te /\ cr1.re
        /\ ~cr1.rxneie /\ ~cr1.txeie /\ ~cr1.idleie
        /\ cr2.adv = Cr2Reset.adv
        /\ cr3 = Cr3Reset
        /\ lastset = NoCalls
    /\ Constructed =>
        \A e \in Events : cr1[EnableBitOf(e)] => lastset[e] = "listen"

\* C18's case: the binder has just returned Ok on the low-power instance:
\* the three enables of the peripheral are set, no interrupt enable is, and
\* no listen has been called.
C18_Witness ==
    /\ op = "usart"
    /\ ret = Ok
    /\ inst = "LPUART"
    /\ handles["Serial"] = 1
    /\ cr1.ue /\ cr1.te /\ cr1.re
    /\ ~cr1.rxneie /\ ~cr1.txeie /\ ~cr1.idleie
    /\ cr3 = Cr3Reset
    /\ lastset = NoCalls

\* ------------------------------------------- reads that return no byte

\* C19: a read() that reports an error or would-block makes no read of RDR
\* and leaves RXNE and the pending word as they were; a would-block read
\* changes no register; and with RXNE set together with the error flags S at
\* the last receive event, the read after the |S| error reports returns the
\* byte that was pending then.
C19_ErrorKeepsByte ==
    /\ [][op' \in ReadOps /\ ret'.kind \in {"Err", "WouldBlock"} =>
            /\ Calls(wlog', "rdr.read") = {}
            /\ isr'.rxne = isr.rxne
            /\ rdr' = rdr]_vars
    /\ [][op' \in ReadOps /\ ret' = WouldBlock => UNCHANGED regs]_vars
    /\ [](flags0.rxne /\ Len(rdlog) > Len(ErrSeq(flags0)) =>
            rdlog[Len(ErrSeq(flags0)) + 1] = OkByte(AsU8(rdr)))

\* C19's case: a word was pending with parity and overrun flagged; two reads
\* reported the errors and the third returned the low byte of that word.
C19_Witness ==
    /\ op = "Rx.read"
    /\ flags0.rxne /\ flags0.pe /\ flags0.ore /\ ~flags0.fe /\ ~flags0.nf
    /\ rdr \in RxWords
    /\ rdr > 255
    /\ rdlog = <<Err("Parity"), Err("Overrun"), OkByte(AsU8(rdr))>>
    /\ ~isr.rxne

\* ------------------------------------------- the idle enable after split

\* Serial has been split: sub-handles exist and Serial does not.
AfterSplit == Constructed /\ handles["Serial"] = 0

=============================================================================
